---------------------------- MODULE Spec2Model ----------------------------
(***************************************************************************)
(* Model of the DUNE task Tutorial/PlanVisit: the final task (the file     *)
(* with sendPlan/createPlan) and the earlier calculateWeights of           *)
(* src/Tutorial/PlanVisit/Task.cpp.                                        *)
(*                                                                         *)
(* Spec is the running task; SpecTSP runs TSP alone on any weight matrix;  *)
(* SpecPlanner runs calculateWeights, createPlan and the planning step     *)
(* alone on any stored waypoint list and depot.                            *)
(*                                                                         *)
(* Numbers.  A double is modelled as an integer count of 1/100000ths, so a *)
(* configured value of d degrees is the integer d * 100000 and one radian  *)
(* is 100000.  C++ vectors are sequences; At(v, i) is v[i] of the code.    *)
(***************************************************************************)
EXTENDS Integers, Sequences, FiniteSets, TLC

VARIABLES
  configured,       \* the "Points to Visit" value as configured (degrees)
  points_to_visit,  \* m_args.points_to_visit
  m_vstate,         \* last consumed VehicleState::op_mode
  m_in_mission,
  m_progress,
  m_auv_lat,
  m_auv_lon,
  m_PTV_ok,
  m_plan_sent,
  m_plan_to_run,    \* IMC::PlanSpecification: maneuvers, transitions, start_man_id
  active,           \* what isActive() returns
  entity_code,      \* last code given to setEntityState
  weights,          \* onMain's local: the weight matrix last computed
  index,            \* onMain's local: the route last returned by TSP
  outbox,           \* the PlanControl requests dispatched so far
  sent_since_act,   \* number of PlanControl requests since the last activation
  n_updates,        \* number of onUpdateParameters calls so far
  pc                \* position of the process

vars == <<configured, points_to_visit, m_vstate, m_in_mission, m_progress,
          m_auv_lat, m_auv_lon, m_PTV_ok, m_plan_sent, m_plan_to_run, active,
          entity_code, weights, index, outbox, sent_since_act, n_updates, pc>>

----------------------------------------------------------------------------
(* Bounds *)

\* Longest waypoint list given to calculateWeights, TSP and createPlan alone.
MaxPts == 6
\* Longest "Points to Visit" list configured while the task runs.
MaxConfig == 2
\* Largest entry of a weight matrix drawn as an input of TSP.
MaxWeight == 1
\* Number of onUpdateParameters calls followed.
MaxUpdates == 2

\* Program constant: the initial value of min_path.
DBL_MAX == 1000000000

----------------------------------------------------------------------------
(* Helpers for C++ containers *)

At(v, i) == v[i + 1]

Abs(x) == IF x < 0 THEN -x ELSE x

SetMax(S) == CHOOSE x \in S : \A y \in S : y <= x

Reverse(s) == [k \in 1..Len(s) |-> s[Len(s) + 1 - k]]

\* weights[a][b] = v
Store(w, a, b, v) == [w EXCEPT ![a][b] = v]

----------------------------------------------------------------------------
(* External numeric collaborators *)

\* Angles::radians: x * (pi / 180), with pi / 180 = 0.01745.
Radians(x) == (x * 1745) \div 100000

\* Coordinates::WGS84::getNEBearingAndRange, its range output: a distance
\* that is non-negative, symmetric and zero between equal coordinates.
Range(lat1, lon1, lat2, lon2) == Abs(lat2 - lat1) + Abs(lon2 - lon1)

----------------------------------------------------------------------------
(* calculateWeights() of the final task *)

\* weights[a][b] = r; weights[b][a] = r;
StorePairOneWay(w, a, b, r) == Store(w, a, b, r)
StorePair(w, a, b, r) == Store(Store(w, a, b, r), b, a, r)

RECURSIVE WeightsInner(_, _, _, _)
WeightsInner(w, pts, i, j) ==
  IF j >= Len(pts) THEN w
  ELSE IF i = j
       THEN WeightsInner(Store(w, i \div 2 + 1, j \div 2 + 1, 0), pts, i, j + 2)
       ELSE LET r == Range(At(pts, i), At(pts, i + 1), At(pts, j), At(pts, j + 1))
            IN WeightsInner(StorePair(w, i \div 2 + 1, j \div 2 + 1, r), pts, i, j + 2)

RECURSIVE WeightsOuter(_, _, _, _, _)
WeightsOuter(w, pts, lat, lon, i) ==
  IF i >= Len(pts) THEN w
  ELSE LET r  == Range(lat, lon, At(pts, i), At(pts, i + 1))
           w1 == StorePair(w, 0, i \div 2 + 1, r)
       IN WeightsOuter(WeightsInner(w1, pts, i, i), pts, lat, lon, i + 2)

calculateWeights(pts, lat, lon) ==
  LET n_points == Len(pts) \div 2 + 1
      zero == [a \in 0..(n_points - 1) |-> [b \in 0..(n_points - 1) |-> 0]]
  IN WeightsOuter(zero, pts, lat, lon, 0)

----------------------------------------------------------------------------
(* calculateWeights(weights) of src/Tutorial/PlanVisit/Task.cpp *)

RECURSIVE OldWeightsInner(_, _, _, _)
OldWeightsInner(w, pts, i, j) ==
  IF j >= Len(pts) THEN w
  ELSE IF i = j
       THEN OldWeightsInner(Store(w, i \div 2, j \div 2, 0), pts, i, j + 2)
       ELSE LET r  == Range(At(pts, i), At(pts, i + 1), At(pts, j), At(pts, j + 1))
                w1 == Store(w, i \div 2 + 1, j \div 2, r)
                w2 == Store(w1, j \div 2, i \div 2 + 1, r)
            IN OldWeightsInner(w2, pts, i, j + 2)

RECURSIVE OldWeightsOuter(_, _, _, _, _)
OldWeightsOuter(w, pts, lat, lon, i) ==
  IF i >= Len(pts) THEN w
  ELSE LET r  == Range(lat, lon, At(pts, i), At(pts, i + 1))
           w1 == Store(w, 0, i \div 2, r)
           w2 == Store(w1, i \div 2, 0, r)
       IN OldWeightsOuter(OldWeightsInner(w2, pts, i, i), pts, lat, lon, i + 2)

calculateWeightsOld(w, pts, lat, lon) == OldWeightsOuter(w, pts, lat, lon, 0)

----------------------------------------------------------------------------
(* TSP *)

\* std::next_permutation: the next sequence in lexicographic order and true,
\* or the first (sorted) one and false when s is the last.
NextPermutation(s) ==
  LET n   == Len(s)
      asc == {i \in 1..(n - 1) : s[i] < s[i + 1]}
  IN IF asc = {} THEN [more |-> FALSE, seq |-> Reverse(s)]
     ELSE LET i == SetMax(asc)
              j == SetMax({k \in (i + 1)..n : s[k] > s[i]})
              swapped == [s EXCEPT ![i] = s[j], ![j] = s[i]]
          IN [more |-> TRUE,
              seq  |-> [k \in 1..n |-> IF k <= i THEN swapped[k]
                                       ELSE swapped[n + i + 1 - k]]]

\* for (i ...) { current_pathweight += weights[k][indices[i]]; k = indices[i]; }
RECURSIVE PathLoop(_, _, _, _, _)
PathLoop(w, indices, i, k, acc) ==
  IF i >= Len(indices) THEN [k |-> k, acc |-> acc]
  ELSE PathLoop(w, indices, i + 1, At(indices, i), acc + w[k][At(indices, i)])

\* The loop above, without the closing current_pathweight += weights[k][0].
PathWeightOpen(w, indices) == PathLoop(w, indices, 0, 0, 0).acc
PathWeight(w, indices) ==
  LET r == PathLoop(w, indices, 0, 0, 0) IN r.acc + w[r.k][0]

\* if (current_pathweight < min_path)
BetterOrEqual(current_pathweight, min_path) == current_pathweight <= min_path
Better(current_pathweight, min_path) == current_pathweight < min_path

\* The do ... while (next_permutation(...)) loop.
RECURSIVE TSPLoop(_, _, _, _)
TSPLoop(w, indices, min_path, best_indices) ==
  LET cur  == PathWeight(w, indices)
      upd  == Better(cur, min_path)
      min1 == IF upd THEN cur ELSE min_path
      best == IF upd THEN indices ELSE best_indices
      np   == NextPermutation(indices)
  IN IF np.more THEN TSPLoop(w, np.seq, min1, best) ELSE best

\* The lambda of std::transform: back to the original index.
ToOriginalIndex(element) == element - 1

\* npts is m_args.points_to_visit.size().
TSP(w, npts) ==
  LET indices == [k \in 1..((npts + 1) \div 2) |-> k]
      best    == TSPLoop(w, indices, DBL_MAX, <<>>)
  IN [k \in 1..Len(best) |-> ToOriginalIndex(best[k])]

----------------------------------------------------------------------------
(* createPlan *)

\* operator<< of an unsigned number on a stringstream.
DecimalText(k) ==
  CASE k = 0 -> "0" [] k = 1 -> "1" [] k = 2 -> "2" [] k = 3 -> "3"
    [] k = 4 -> "4" [] k = 5 -> "5" [] k = 6 -> "6" [] k = 7 -> "7"
    [] k = 8 -> "8" [] k = 9 -> "9"

\* indices.size() - 1 in size_t arithmetic (64 bits), as text: 0 - 1 wraps.
SizeMinusOneText(n) ==
  IF n = 0 THEN "18446744073709551615" ELSE DecimalText(n - 1)

\* man_name << "Goto" << k
ManeuverName(text) == <<"Goto", text>>

\* lat = points_to_visit[indices[i]*2]; lon = points_to_visit[indices[i]*2 + 1]
GotoTargetSwapped(pts, ix) == <<At(pts, ix * 2 + 1), At(pts, ix * 2)>>
GotoTarget(pts, ix) == <<At(pts, ix * 2), At(pts, ix * 2 + 1)>>

\* IMC::Goto inside an IMC::PlanManeuver; speed 1.6 m/s, z = 0 (depth).
PlanManeuver(id, lat, lon) ==
  [maneuver_id |-> id, lat |-> lat, lon |-> lon, speed |-> 160000,
   speed_units |-> "SUNITS_METERS_PS", z |-> 0, z_units |-> "Z_DEPTH"]

PlanTransition(src, dst) ==
  [source_man |-> src, dest_man |-> dst, conditions |-> "ManeuverIsDone"]

\* The for loop of createPlan.
RECURSIVE CreatePlanLoop(_, _, _, _)
CreatePlanLoop(plan, indices, pts, i) ==
  IF i >= Len(indices) THEN plan
  ELSE LET t    == GotoTarget(pts, At(indices, i))
           id   == ManeuverName(DecimalText(i))
           pman == PlanManeuver(id, t[1], t[2])
           p1   == [plan EXCEPT !.maneuvers = Append(@, pman)]
           p2   == IF i = 0
                   THEN [p1 EXCEPT !.start_man_id = id]
                   ELSE [p1 EXCEPT !.transitions =
                           Append(@, PlanTransition(ManeuverName(DecimalText(i - 1)), id))]
       IN CreatePlanLoop(p2, indices, pts, i + 1)

createPlan(plan, indices, pts, lat, lon) ==
  LET p1   == CreatePlanLoop(plan, indices, pts, 0)
      id   == ManeuverName(DecimalText(Len(indices)))
      pman == PlanManeuver(id, lat, lon)
      prev == ManeuverName(SizeMinusOneText(Len(indices)))
  IN [p1 EXCEPT !.maneuvers   = Append(@, pman),
                !.transitions = Append(@, PlanTransition(prev, id))]

\* m_plan_to_run after the constructor.
FreshPlan ==
  [plan_id |-> "PlanVisit", maneuvers |-> <<>>, transitions |-> <<>>,
   start_man_id |-> <<>>]

\* The PlanControl message sendPlan dispatches.
PlanControl(rid, plan) ==
  [type |-> "PC_REQUEST", op |-> "PC_START", request_id |-> rid,
   plan_id |-> plan.plan_id, arg |-> plan]

----------------------------------------------------------------------------
(* Inputs *)

\* Configured values, in degrees: 0 and 1.
Degrees == {0, 100000}

\* Sequences over S of length at most n.
SeqUpTo(S, n) == UNION {[1..k -> S] : k \in 0..n}

ConfigLists == SeqUpTo(Degrees, MaxConfig)

\* WGS84 positions carried by EstimatedState messages, in radians.
Positions == {<<0, 0>>, <<Radians(100000), Radians(100000)>>}

\* Latitudes and longitudes in radians: those of 0 and 1 degree.  A double
\* read outside a vector is drawn from them too.
Coordinates == {0, Radians(100000)}

OpModes == {"VS_SERVICE", "VS_MANEUVER"}

\* PlanControlState messages: state, plan_progress, last_outcome.
PlanControlStates ==
  { [state |-> "PCS_READY",     plan_progress |-> 100, last_outcome |-> "LPO_SUCCESS"],
    [state |-> "PCS_EXECUTING", plan_progress |-> 50,  last_outcome |-> "LPO_NONE"],
    [state |-> "PCS_EXECUTING", plan_progress |-> 100, last_outcome |-> "LPO_SUCCESS"] }

\* m_gen->random() & 0xFFFF
RequestIds == {0, 65535}

\* All orderings of the set S, as sequences.
Perms(S) ==
  {f \in [1..Cardinality(S) -> S] : \A a \in S : \E k \in 1..Cardinality(S) : f[k] = a}

----------------------------------------------------------------------------
(* The task: state after the constructor, handlers, main loop *)

\* onUpdateParameters on the list the parameter reader left in m_args.
onUpdateParameters(pts) ==
  IF Len(pts) % 2 # 0
  THEN [points_to_visit |-> pts, m_PTV_ok |-> FALSE]
  ELSE [points_to_visit |-> [k \in 1..Len(pts) |-> Radians(pts[k])],
        m_PTV_ok |-> TRUE]

\* What a double member holds that the constructor did not initialize and
\* no handler has assigned yet (no position or progress has this value).
Uninitialized == -1

\* The constructor's member values.  m_progress, m_auv_lat and m_auv_lon are
\* not in its initializer list.
TaskConstructed ==
  /\ configured = <<>>
  /\ m_vstate = "VS_BOOT"
  /\ m_in_mission = FALSE
  /\ m_PTV_ok = FALSE
  /\ m_plan_sent = FALSE
  /\ m_plan_to_run = FreshPlan
  /\ active = FALSE
  /\ entity_code = "CODE_INIT"
  /\ outbox = <<>>
  /\ sent_since_act = 0
  /\ n_updates = 0

Init ==
  /\ TaskConstructed
  /\ points_to_visit = <<>>
  /\ m_progress = Uninitialized
  /\ m_auv_lat = Uninitialized
  /\ m_auv_lon = Uninitialized
  /\ weights = <<>>
  /\ index = <<>>
  /\ pc = "main"

\* The framework loads the configuration (one onUpdateParameters call) before
\* it starts onMain, where every message and request is served.
Started == pc = "main" /\ n_updates >= 1

\* The "Points to Visit" parameter is set to list: the reader stores the
\* parsed values and the framework calls onUpdateParameters.
LoadParameters(list) ==
  /\ pc = "main"
  /\ n_updates < MaxUpdates
  /\ LET r == onUpdateParameters(list)
     IN /\ points_to_visit' = r.points_to_visit
        /\ m_PTV_ok' = r.m_PTV_ok
  /\ configured' = list
  /\ n_updates' = n_updates + 1
  /\ UNCHANGED <<m_vstate, m_in_mission, m_progress, m_auv_lat, m_auv_lon,
                 m_plan_sent, m_plan_to_run, active, entity_code, weights,
                 index, outbox, sent_since_act, pc>>

\* Another parameter of the task is set: onUpdateParameters runs on the
\* stored list, which the reader did not touch.
RefreshParameters ==
  /\ Started
  /\ n_updates < MaxUpdates
  /\ LET r == onUpdateParameters(points_to_visit)
     IN /\ points_to_visit' = r.points_to_visit
        /\ m_PTV_ok' = r.m_PTV_ok
  /\ n_updates' = n_updates + 1
  /\ UNCHANGED <<configured, m_vstate, m_in_mission, m_progress, m_auv_lat,
                 m_auv_lon, m_plan_sent, m_plan_to_run, active, entity_code,
                 weights, index, outbox, sent_since_act, pc>>

\* Activation is requested: the framework calls onActivation, which returns
\* nothing, and the task is active from then on.
Activate ==
  /\ Started
  /\ ~active
  /\ entity_code' = IF m_PTV_ok THEN "CODE_ACTIVE" ELSE entity_code
  /\ active' = TRUE
  /\ sent_since_act' = 0
  /\ UNCHANGED <<configured, points_to_visit, m_vstate, m_in_mission,
                 m_progress, m_auv_lat, m_auv_lon, m_PTV_ok, m_plan_sent,
                 m_plan_to_run, weights, index, outbox, n_updates, pc>>

\* Deactivation is requested by the host: onDeactivation.
DeactivateResetsFlag ==
  /\ Started
  /\ active
  /\ entity_code' = "CODE_IDLE"
  /\ active' = FALSE
  /\ m_plan_sent' = FALSE
  /\ UNCHANGED <<configured, points_to_visit, m_vstate, m_in_mission,
                 m_progress, m_auv_lat, m_auv_lon, m_PTV_ok, m_plan_to_run,
                 weights, index, outbox, sent_since_act, n_updates, pc>>
Deactivate ==
  /\ Started
  /\ active
  /\ entity_code' = "CODE_IDLE"
  /\ active' = FALSE
  /\ UNCHANGED <<configured, points_to_visit, m_vstate, m_in_mission,
                 m_progress, m_auv_lat, m_auv_lon, m_PTV_ok, m_plan_sent,
                 m_plan_to_run, weights, index, outbox, sent_since_act,
                 n_updates, pc>>

consumeVehicleState(op_mode) ==
  /\ Started
  /\ m_vstate' = op_mode
  /\ UNCHANGED <<configured, points_to_visit, m_in_mission, m_progress,
                 m_auv_lat, m_auv_lon, m_PTV_ok, m_plan_sent, m_plan_to_run,
                 active, entity_code, weights, index, outbox, sent_since_act,
                 n_updates, pc>>

\* requestDeactivation() deactivates an active task (onDeactivation).
consumePlanControlState(msg) ==
  /\ Started
  /\ m_in_mission' = (msg.state = "PCS_EXECUTING")
  /\ m_progress' = msg.plan_progress
  /\ IF m_in_mission' /\ msg.last_outcome = "LPO_SUCCESS" /\ active
     THEN entity_code' = "CODE_IDLE" /\ active' = FALSE
     ELSE UNCHANGED <<entity_code, active>>
  /\ UNCHANGED <<configured, points_to_visit, m_vstate, m_auv_lat, m_auv_lon,
                 m_PTV_ok, m_plan_sent, m_plan_to_run, weights, index, outbox,
                 sent_since_act, n_updates, pc>>

\* pos is what Coordinates::toWGS84 computes from the message.
consumeEstimatedState(pos) ==
  /\ Started
  /\ entity_code' = "CODE_ACTIVE"
  /\ m_auv_lat' = pos[1]
  /\ m_auv_lon' = pos[2]
  /\ UNCHANGED <<configured, points_to_visit, m_vstate, m_in_mission,
                 m_progress, m_PTV_ok, m_plan_sent, m_plan_to_run, active,
                 weights, index, outbox, sent_since_act, n_updates, pc>>

\* The condition of onMain's if.
PlanningDueNoFlag == active /\ m_vstate = "VS_SERVICE"
PlanningDueNoMode == active /\ ~m_plan_sent
PlanningDue == active /\ ~m_plan_sent /\ m_vstate = "VS_SERVICE"

\* sendPlan and m_plan_sent = true, for the plan createPlan left.
sendPlan(rid, plan) ==
  /\ m_plan_to_run' = plan
  /\ outbox' = Append(outbox, PlanControl(rid, plan))
  /\ m_plan_sent' = TRUE
  /\ sent_since_act' = sent_since_act + 1

\* The positions a read of (m_auv_lat, m_auv_lon) can give: the stored one,
\* or any when no EstimatedState has set it (an uninitialized read).
DepotRead ==
  IF m_auv_lat = Uninitialized THEN Positions ELSE {<<m_auv_lat, m_auv_lon>>}

\* One iteration of onMain's loop that plans, the list having even length.
PlanEven(rid, depot) ==
  /\ Len(points_to_visit) % 2 = 0
  /\ LET w  == calculateWeights(points_to_visit, depot[1], depot[2])
         ix == TSP(w, Len(points_to_visit))
     IN /\ weights' = w
        /\ index' = ix
        /\ sendPlan(rid, createPlan(m_plan_to_run, ix, points_to_visit,
                                    depot[1], depot[2]))
  /\ pc' = pc

\* The same with a list of odd length: calculateWeights, TSP and createPlan
\* read points_to_visit[size] and calculateWeights writes outside the matrix
\* (undefined behaviour).  The process dies, or goes on with some visiting
\* order of the ceil(size/2) indices and some value for the missing double.
PlanOdd(rid, depot) ==
  /\ Len(points_to_visit) % 2 = 1
  /\ \/ \E g \in Coordinates :
          \E ix \in Perms(0..(Len(points_to_visit) \div 2)) :
            /\ weights' = <<>>
            /\ index' = ix
            /\ sendPlan(rid, createPlan(m_plan_to_run, ix,
                                        Append(points_to_visit, g),
                                        depot[1], depot[2]))
            /\ pc' = pc
     \/ /\ pc' = "crashed"
        /\ UNCHANGED <<weights, index, m_plan_to_run, outbox, m_plan_sent,
                       sent_since_act>>

\* One iteration of the loop of onMain (the messages waitForMessages
\* delivers are the consume actions).
MainIteration ==
  /\ Started
  /\ \/ /\ PlanningDue
        /\ \E rid \in RequestIds, depot \in DepotRead :
              PlanEven(rid, depot) \/ PlanOdd(rid, depot)
        /\ UNCHANGED <<configured, points_to_visit, m_vstate, m_in_mission,
                       m_progress, m_auv_lat, m_auv_lon, m_PTV_ok, active,
                       entity_code, n_updates>>
     \/ /\ ~PlanningDue
        /\ UNCHANGED vars

Next ==
  \/ \E list \in ConfigLists : LoadParameters(list)
  \/ RefreshParameters
  \/ Activate
  \/ Deactivate
  \/ \E op_mode \in OpModes : consumeVehicleState(op_mode)
  \/ \E msg \in PlanControlStates : consumePlanControlState(msg)
  \/ \E pos \in Positions : consumeEstimatedState(pos)
  \/ MainIteration

Spec == Init /\ [][Next]_vars

----------------------------------------------------------------------------
(* TSP alone, on any weight matrix *)

\* The (n+1)x(n+1) matrices with entries in 0..MaxWeight off the diagonal
\* and 0 on it.
Matrices(n) ==
  {m \in [0..n -> [0..n -> 0..MaxWeight]] : \A a \in 0..n : m[a][a] = 0}

InitTSP ==
  /\ TaskConstructed
  /\ m_progress = Uninitialized
  /\ m_auv_lat = Uninitialized
  /\ m_auv_lon = Uninitialized
  /\ index = <<>>
  /\ pc = "input"
  /\ \E n \in 0..(MaxPts \div 2) :
       /\ points_to_visit = [k \in 1..(2 * n) |-> 0]
       /\ weights \in Matrices(n)

RunTSP ==
  /\ pc = "input"
  /\ index' = TSP(weights, Len(points_to_visit))
  /\ pc' = "done"
  /\ UNCHANGED <<configured, points_to_visit, m_vstate, m_in_mission,
                 m_progress, m_auv_lat, m_auv_lon, m_PTV_ok, m_plan_sent,
                 m_plan_to_run, active, entity_code, weights, outbox,
                 sent_since_act, n_updates>>

SpecTSP == InitTSP /\ [][RunTSP]_vars

----------------------------------------------------------------------------
(* calculateWeights, createPlan and the planning step alone *)

\* Stored waypoint lists: even length, at most MaxPts values, in radians.
WaypointLists ==
  {pts \in SeqUpTo(Coordinates, MaxPts) : Len(pts) % 2 = 0}

InitPlanner ==
  /\ TaskConstructed
  /\ m_progress = Uninitialized
  /\ m_auv_lat \in Coordinates
  /\ m_auv_lon \in Coordinates
  /\ points_to_visit \in WaypointLists
  /\ weights = <<>>
  /\ index = <<>>
  /\ pc = "input"

PlannerFrame ==
  UNCHANGED <<configured, points_to_visit, m_vstate, m_in_mission, m_progress,
              m_auv_lat, m_auv_lon, m_PTV_ok, m_plan_sent, active,
              entity_code, outbox, sent_since_act, n_updates>>

\* calculateWeights() of the final task.
RunCalculateWeights ==
  /\ pc = "input"
  /\ weights' = calculateWeights(points_to_visit, m_auv_lat, m_auv_lon)
  /\ pc' = "weights"
  /\ UNCHANGED <<index, m_plan_to_run>>
  /\ PlannerFrame

\* calculateWeights(weights) of Task.cpp on an (n+1)x(n+1) matrix whose
\* entries all hold fill.
RunCalculateWeightsOld ==
  /\ pc = "input"
  /\ \E fill \in 0..MaxWeight :
       LET n  == Len(points_to_visit) \div 2
           w0 == [a \in 0..n |-> [b \in 0..n |-> fill]]
       IN weights' = calculateWeightsOld(w0, points_to_visit, m_auv_lat, m_auv_lon)
  /\ pc' = "weights_old"
  /\ UNCHANGED <<index, m_plan_to_run>>
  /\ PlannerFrame

\* createPlan on the constructor's plan, for any route over the waypoints.
RunCreatePlan ==
  /\ pc = "input"
  /\ \E route \in SeqUpTo(0..(Len(points_to_visit) \div 2 - 1),
                          Len(points_to_visit) \div 2) :
       /\ index' = route
       /\ m_plan_to_run' = createPlan(m_plan_to_run, route, points_to_visit,
                                      m_auv_lat, m_auv_lon)
  /\ pc' = "plan"
  /\ UNCHANGED weights
  /\ PlannerFrame

\* The body of onMain's if up to createPlan.
RunPlanning ==
  /\ pc = "input"
  /\ LET w  == calculateWeights(points_to_visit, m_auv_lat, m_auv_lon)
         ix == TSP(w, Len(points_to_visit))
     IN /\ weights' = w
        /\ index' = ix
        /\ m_plan_to_run' = createPlan(m_plan_to_run, ix, points_to_visit,
                                       m_auv_lat, m_auv_lon)
  /\ pc' = "planned"
  /\ PlannerFrame

NextPlanner ==
  \/ RunCalculateWeights
  \/ RunCalculateWeightsOld
  \/ RunCreatePlan
  \/ RunPlanning

SpecPlanner == InitPlanner /\ [][NextPlanner]_vars

----------------------------------------------------------------------------
(* Vocabulary of the properties *)

\* n: the number of waypoints of the stored list.
NumWaypoints == Len(points_to_visit) \div 2

\* Waypoint i (1..n) of a stored list: its latitude and longitude.
Waypoint(pts, i) == <<pts[2 * i - 1], pts[2 * i]>>

\* The route held in index, as matrix indices 1..n.
Tour == [k \in 1..Len(index) |-> index[k] + 1]

\* The visiting orders of n waypoints.
Tours(n) == Perms(1..n)

RECURSIVE LegSum(_, _, _)
LegSum(M, r, k) ==
  IF k >= Len(r) THEN 0 ELSE M[r[k]][r[k + 1]] + LegSum(M, r, k + 1)

\* M[0][r0] + sum of M[rk][rk+1] + M[rlast][0]; 0 for the empty route.
CycleCost(M, r) ==
  IF Len(r) = 0 THEN 0 ELSE M[0][r[1]] + LegSum(M, r, 1) + M[r[Len(r)]][0]

\* a comes before b in lexicographic order.
LexLess(a, b) ==
  \E k \in 1..Len(a) : a[k] < b[k] /\ \A j \in 1..(k - 1) : a[j] = b[j]

\* The visiting orders of minimum cycle cost.
Optimal(M, n) ==
  {p \in Tours(n) : \A q \in Tours(n) : CycleCost(M, p) <= CycleCost(M, q)}

----------------------------------------------------------------------------
(* Properties of TSP (SpecTSP) *)

C7_TSPKeepsFirstMinimum ==
  pc = "done" =>
    /\ \A p \in Tours(NumWaypoints) :
         LET later == {q \in Tours(NumWaypoints) : LexLess(p, q)}
             np    == NextPermutation(p)
         IN IF later = {} THEN ~np.more
            ELSE /\ np.more
                 /\ np.seq \in later
                 /\ \A q \in later : q = np.seq \/ LexLess(np.seq, q)
    /\ Tour \in Optimal(weights, NumWaypoints)
    /\ \A q \in Optimal(weights, NumWaypoints) : q = Tour \/ LexLess(Tour, q)

\* TSP ran on three waypoints, several orders share the minimum cost, and a
\* later one of them was passed over.
C7_Witness ==
  /\ pc = "done"
  /\ NumWaypoints = 3
  /\ index # <<0, 1, 2>>
  /\ \E q \in Optimal(weights, 3) : LexLess(Tour, q)

----------------------------------------------------------------------------
(* Properties of calculateWeights and createPlan (SpecPlanner) *)

\* C4: the matrix calculateWeights() returns for n waypoints is
\* (n+1)x(n+1), symmetric, zero on the diagonal and non-negative.
C4_WeightsSymmetricZeroDiagonal ==
  pc = "weights" =>
    LET n == NumWaypoints
    IN /\ DOMAIN weights = 0..n
       /\ \A i \in 0..n : DOMAIN weights[i] = 0..n
       /\ \A i, j \in 0..n :
            /\ weights[i][j] = weights[j][i]
            /\ weights[i][i] = 0
            /\ weights[i][j] >= 0

\* calculateWeights() ran on three waypoints, two of them apart.
C4_Witness ==
  /\ pc = "weights"
  /\ NumWaypoints = 3
  /\ \E i, j \in 1..3 : weights[i][j] > 0

\* C10: after calculateWeights(weights) of Task.cpp, index 0 is the depot
\* and indices 1..n the waypoints in input order: M[0][i] = M[i][0] =
\* range(depot, waypoint_i), M[i][j] = M[j][i] = range(waypoint_i,
\* waypoint_j) for i # j, and M[i][i] = 0.
C10_OldWeightsIndexedFromDepot ==
  pc = "weights_old" =>
    LET n == NumWaypoints
        wp(i) == Waypoint(points_to_visit, i)
    IN \A i \in 1..n :
         /\ weights[0][i] = Range(m_auv_lat, m_auv_lon, wp(i)[1], wp(i)[2])
         /\ weights[i][0] = weights[0][i]
         /\ weights[i][i] = 0
         /\ \A j \in 1..n :
              i # j => /\ weights[i][j] = Range(wp(i)[1], wp(i)[2], wp(j)[1], wp(j)[2])
                       /\ weights[j][i] = weights[i][j]

\* The maneuver identifiers of a plan, and its transitions as edges.
ManeuverIds(plan) ==
  {plan.maneuvers[k].maneuver_id : k \in 1..Len(plan.maneuvers)}

Edges(plan) ==
  {<<plan.transitions[k].source_man, plan.transitions[k].dest_man>> :
     k \in 1..Len(plan.transitions)}

\* The identifiers reached from those of S in at most steps transitions.
RECURSIVE Reached(_, _, _)
Reached(E, S, steps) ==
  IF steps = 0 THEN S
  ELSE Reached(E, S \cup {e[2] : e \in {d \in E : d[1] \in S}}, steps - 1)

\* One linear chain from the first to the last maneuver: every transition
\* joins existing maneuvers, no maneuver is the source of two transitions or
\* the destination of two, none leads back to itself, and the last maneuver
\* is reached from the first.
LinearChain(plan) ==
  LET E   == Edges(plan)
      ids == ManeuverIds(plan)
      len == Len(plan.maneuvers)
  IN /\ \A e \in E : e[1] \in ids /\ e[2] \in ids
     /\ \A d, e \in E : (d[1] = e[1] \/ d[2] = e[2]) => d = e
     /\ Cardinality(E) = Len(plan.transitions)
     /\ \A e \in E : e[1] \notin Reached(E, {e[2]}, len)
     /\ plan.maneuvers[len].maneuver_id
          \in Reached(E, {plan.maneuvers[1].maneuver_id}, len)

\* C3: createPlan on a fresh plan leaves, for a route of length n >= 0,
\* n+1 maneuvers with pairwise distinct identifiers and n transitions that
\* form one linear chain from the first to the last maneuver.
C3_PlanIsLinearChain ==
  pc = "plan" =>
    /\ Len(m_plan_to_run.maneuvers) = Len(index) + 1
    /\ Cardinality(ManeuverIds(m_plan_to_run)) = Len(index) + 1
    /\ Len(m_plan_to_run.transitions) = Len(index)
    /\ LinearChain(m_plan_to_run)

\* C8: for the route TSP returns for n >= 1 waypoints, maneuver D_k (k < n)
\* targets the waypoint the optimal tour has at position k, D_n targets the
\* depot that was matrix index 0, and start_man_id names D_0.
C8_PlanFollowsTour ==
  (pc = "planned" /\ NumWaypoints >= 1) =>
    LET n    == NumWaypoints
        mans == m_plan_to_run.maneuvers
    IN /\ Tour \in Optimal(weights, n)
       /\ Len(mans) = n + 1
       /\ \A k \in 1..n :
            <<mans[k].lat, mans[k].lon>> = Waypoint(points_to_visit, Tour[k])
       /\ <<mans[n + 1].lat, mans[n + 1].lon>> = <<m_auv_lat, m_auv_lon>>
       /\ \A i \in 1..n :
            weights[0][i] = Range(m_auv_lat, m_auv_lon,
                                  Waypoint(points_to_visit, i)[1],
                                  Waypoint(points_to_visit, i)[2])
       /\ m_plan_to_run.start_man_id = mans[1].maneuver_id

\* A plan was built for three waypoints that are not visited in input order.
C8_Witness ==
  /\ pc = "planned"
  /\ NumWaypoints = 3
  /\ index # <<0, 1, 2>>
  /\ m_plan_to_run.maneuvers[1].lat # m_plan_to_run.maneuvers[1].lon

----------------------------------------------------------------------------
(* Properties of the running task (Spec) *)

\* A step that runs the planning branch of onMain: it leaves a plan and a
\* request, or ends the process inside calculateWeights, TSP or createPlan.
PlanningStep ==
  \/ m_plan_to_run' # m_plan_to_run
  \/ outbox' # outbox
  \/ pc' # pc

\* C1: once onUpdateParameters has seen a list of odd length (m_PTV_ok is
\* false), no later step runs calculateWeights, TSP, createPlan or sendPlan
\* while that list is the configured one.
C1_NoPlanningOnOddList ==
  [][(n_updates >= 1 /\ Len(points_to_visit) % 2 = 1 /\ ~m_PTV_ok)
       => ~PlanningStep]_vars

\* C5: at most one PlanControl request is dispatched between an activation
\* and the next, and m_plan_sent changes only in the planning step, to true,
\* together with the dispatch.
C5_OnePlanPerActivation ==
  /\ [](sent_since_act <= 1)
  /\ [][m_plan_sent' # m_plan_sent
          => /\ PlanningDue
             /\ m_plan_sent'
             /\ Len(outbox') = Len(outbox) + 1]_vars

\* The plan was sent in this activation and the planning condition holds
\* again but for the flag.
C5_Witness ==
  /\ sent_since_act = 1
  /\ Len(outbox) = 1
  /\ m_plan_sent
  /\ active
  /\ m_vstate = "VS_SERVICE"

\* The stored list of a well-formed configuration: each configured value
\* converted to radians once.
ConvertedOnce == [k \in 1..Len(configured) |-> Radians(configured[k])]

\* C6: after any sequence of onUpdateParameters calls, with or without the
\* list being read again, every stored value is the configured value
\* converted to radians exactly once.
C6_ConvertedExactlyOnce ==
  (n_updates >= 1 /\ m_PTV_ok) => points_to_visit = ConvertedOnce

\* C9: a PlanControl request is dispatched only by a step that starts with
\* the task active and the last consumed VehicleState in mode VS_SERVICE.
C9_PlanOnlyInService ==
  [][Len(outbox') > Len(outbox) => (active /\ m_vstate = "VS_SERVICE")]_vars

\* A request has been dispatched, and the vehicle has since left VS_SERVICE.
C9_Witness ==
  /\ Len(outbox) = 1
  /\ m_plan_sent
  /\ m_vstate = "VS_MANEUVER"

\* C11: once m_plan_sent is true it stays true through every later step
\* (handlers, deactivation, re-activation, a report of successful
\* completion), so the task dispatches at most one PlanControl request in
\* its whole life and createPlan fills m_plan_to_run at most once: only in
\* a step that starts with the flag false and ends with it true.
C11_PlanSentNeverReset ==
  /\ [][m_plan_sent => m_plan_sent']_vars
  /\ [](Len(outbox) <= 1)
  /\ [][m_plan_to_run' # m_plan_to_run
          => /\ ~m_plan_sent
             /\ m_plan_sent'
             /\ m_plan_to_run = FreshPlan]_vars

\* The plan was sent, its successful completion was reported (which
\* deactivated the task), and the task has been activated again with the
\* vehicle in VS_SERVICE: the planning condition holds but for the flag.
C11_Witness ==
  /\ m_plan_sent
  /\ Len(outbox) = 1
  /\ m_in_mission
  /\ m_progress = 100
  /\ active
  /\ sent_since_act = 0
  /\ m_vstate = "VS_SERVICE"

\* C12: every step that builds and dispatches a plan for a well-formed list
\* with at least one waypoint (calculateWeights and createPlan both read
\* m_auv_lat and m_auv_lon) starts in a state where an EstimatedState has
\* been consumed, so the depot position read was set.
C12_DepotReceivedBeforePlanning ==
  [][(Len(outbox') > Len(outbox) /\ m_PTV_ok /\ Len(points_to_visit) >= 2)
       => m_auv_lat # Uninitialized]_vars

============================================================================
